---- MODULE Spec2Model ----
(***************************************************************************)
(* Model of the Fourier text-to-speech application (eulerhive/fourier):    *)
(*   src/src/app.py                     rate limiter, voice cache,         *)
(*                                      synthesis, history, main flow      *)
(*   src/src/service_account_manager.py credential store, client factory   *)
(*                                                                         *)
(* One Streamlit session is modelled (session_state), together with the    *)
(* credential directory shared by all identities, the process-wide         *)
(* lru_cache of get_voices and the remote speech service, whose answers    *)
(* are inputs.  Each component has a specification that calls its          *)
(* functions with arbitrary arguments (SpecRate, SpecStore, ...); Spec is  *)
(* the script main() run once per user interaction.                        *)
(***************************************************************************)
EXTENDS Integers, Sequences, FiniteSets, TLC

VARIABLES
    now,            \* time.time(), in whole seconds
    session_state,  \* st.session_state: a function on the keys present
    files,          \* SERVICE_ACCOUNTS_DIR: identity -> content of <id>.json
    lru,            \* the lru_cache of get_voices, least recently used first
    remote,         \* calls received by the remote service (observer)
    last,           \* the last operation called, its arguments and result (observer)
    calls,          \* check_rate_limit calls made in SpecRate (observer)
    first_call,     \* time of the first check_rate_limit call in SpecRate (observer)
    accepted,       \* calls that returned True since window_start was set (observer)
    trail,          \* in SpecCache: what get_voices last returned for the client
                    \* the caller keeps, how many other clients were passed to
                    \* it since, and how many in all (observer)
    in_window       \* in Spec: remote synthesize_speech calls and history
                    \* appends made since window_start was set (observer)

vars == <<now, session_state, files, lru, remote, last, calls, first_call,
          accepted, trail, in_window>>

rateObs == <<calls, first_call, accepted, in_window>>

----------------------------------------------------------------------------
(* Program constants (src/src/app.py:36-38, defaults of the environment).  *)

MAX_TEXT_LENGTH == 5000
RATE_LIMIT_REQUESTS == 10
RATE_LIMIT_WINDOW == 60

(* Bounds of the model.                                                    *)

MaxTime == 124      \* the clock stops advancing here
MaxCalls == 12      \* the observer stops counting check_rate_limit calls here

(* The clock is observed at these distances: a window of 60 s is met       *)
(* strictly inside (30, 31), exactly at its end (30+30) and past it.       *)
TickSteps == {RATE_LIMIT_WINDOW \div 2, RATE_LIMIT_WINDOW \div 2 + 1}

----------------------------------------------------------------------------
(* st.session_state                                                        *)

NoKeys == [k \in {} |-> 0]

Has(state, key) == key \in DOMAIN state

Put(state, key, value) ==
    [k \in DOMAIN state \cup {key} |-> IF k = key THEN value ELSE state[k]]

----------------------------------------------------------------------------
(* Rate limiter: check_rate_limit, app.py:307-322.                         *)
(* The function reads st.session_state.rate_limit; user_id is not used.    *)

\* lines 309-310: create the window on the first call
EnsureWindow(state, t) ==
    IF ~Has(state, "rate_limit")
    THEN Put(state, "rate_limit", [count |-> 0, window_start |-> t])
    ELSE state

\* the reset condition with >= for >: a window that ends one second early
ExpireWindowEarly(state, t) ==
    IF t - state.rate_limit.window_start >= RATE_LIMIT_WINDOW
    THEN Put(state, "rate_limit", [count |-> 0, window_start |-> t])
    ELSE state

\* lines 312-316: start a new window when the old one has elapsed
ExpireWindow(state, t) ==
    IF t - state.rate_limit.window_start > RATE_LIMIT_WINDOW
    THEN Put(state, "rate_limit", [count |-> 0, window_start |-> t])
    ELSE state

\* the ceiling test with > for >=: one request too many is let through
ConsumeOffByOne(state) ==
    IF state.rate_limit.count > RATE_LIMIT_REQUESTS
    THEN [ret |-> FALSE, state |-> state]
    ELSE [ret |-> TRUE,
          state |-> Put(state, "rate_limit",
                        [state.rate_limit EXCEPT !.count = @ + 1])]

\* the count incremented before the ceiling test: a rejected request counts
ConsumeCountsRejected(state) ==
    LET counted == Put(state, "rate_limit",
                       [state.rate_limit EXCEPT !.count = @ + 1]) IN
    IF counted.rate_limit.count > RATE_LIMIT_REQUESTS
    THEN [ret |-> FALSE, state |-> counted]
    ELSE [ret |-> TRUE, state |-> counted]

\* lines 318-322: reject at the ceiling, otherwise count the request
Consume(state) ==
    IF state.rate_limit.count >= RATE_LIMIT_REQUESTS
    THEN [ret |-> FALSE, state |-> state]
    ELSE [ret |-> TRUE,
          state |-> Put(state, "rate_limit",
                        [state.rate_limit EXCEPT !.count = @ + 1])]

\* the whole function: its return value and the session state it leaves
check_rate_limit(state, t) == Consume(ExpireWindow(EnsureWindow(state, t), t))

\* Observers of one check_rate_limit call made at time t.
ObserveCalls(t) ==
    /\ calls' = IF calls < MaxCalls THEN calls + 1 ELSE calls
    /\ first_call' = IF calls = 0 THEN t ELSE first_call

ObserveAccepted(before, res) ==
    accepted' =
         LET fresh == \/ ~Has(before, "rate_limit")
                      \/ before.rate_limit.window_start
                           # res.state.rate_limit.window_start
             base == IF fresh THEN 0 ELSE accepted
         IN  IF res.ret THEN base + 1 ELSE base

CheckRateLimit ==
    LET res == check_rate_limit(session_state, now) IN
    /\ session_state' = res.state
    /\ last' = [op |-> "check_rate_limit", ret |-> res.ret, at |-> now]
    /\ ObserveCalls(now)
    /\ ObserveAccepted(session_state, res)
    /\ UNCHANGED <<now, files, lru, remote, trail, in_window>>

\* time passes between two interactions
Tick ==
    /\ \E d \in TickSteps :
         /\ now + d <= MaxTime
         /\ now' = now + d
    /\ UNCHANGED <<session_state, files, lru, remote, last, rateObs, trail>>

----------------------------------------------------------------------------
(* Credential store and client factory: service_account_manager.py.       *)

UserIds == {"u1", "u2"}     \* user_id of this session, and of another user

RequiredFields == {"type", "project_id", "private_key_id", "private_key", "client_email"}

(* An uploaded file, as far as the code looks at it:                       *)
(*   kind    what json.load makes of it: "garbage" does not parse,         *)
(*           "object", "array" and "string" are the JSON values of that    *)
(*           type, "scalar" is a number, true, false or null;              *)
(*   fields  the required names f for which Python's `f in data` holds:    *)
(*           keys of an object, elements of an array, substrings of a      *)
(*           string;                                                       *)
(*   usable  whether google.oauth2 and the client constructor accept the   *)
(*           object (well-formed key, token_uri, ...);                     *)
(*   fmt     the layout of the text: json.dump writes its own.             *)
(* The uploads tried have all required names, all but one, or none.        *)
FieldSets == {RequiredFields \ missing : missing \in {{}} \cup {{f} : f \in RequiredFields}}
                 \cup {{}}

Uploads ==
    [kind : {"object", "array", "string"}, fields : FieldSets,
     usable : {FALSE}, fmt : {"pretty"}]
    \cup [kind : {"object"}, fields : {RequiredFields},
          usable : {TRUE}, fmt : {"pretty", "dumped"}]
    \cup [kind : {"garbage", "scalar"}, fields : {{}},
          usable : {FALSE}, fmt : {"pretty"}]

Absent == [kind |-> "absent", fields |-> {}, usable |-> FALSE, fmt |-> "none"]

\* a file opened for writing whose content was never (completely) written
Truncated == [kind |-> "garbage", fields |-> {}, usable |-> FALSE, fmt |-> "none"]

\* json.load: the value, without the layout of the text
Parse(file) == [kind |-> file.kind, fields |-> file.fields, usable |-> file.usable]

\* json.dump: the value in json's own layout
Dump(data) == [kind |-> data.kind, fields |-> data.fields, usable |-> data.usable,
               fmt |-> "dumped"]

\* what the filesystem does to open(path, "w") / json.dump, and to unlink()
SaveFs == {"ok", "open_fails", "write_fails"}
RemoveFs == {"ok", "unlink_fails"}

\* account_path.exists()
Exists(dir, user_id) == dir[user_id].kind # "absent"

\* lines 24-27
get_user_service_account_path(dir, user_id) ==
    IF Exists(dir, user_id) THEN user_id ELSE "None"

\* lines 34-37: json.load raises on garbage, `field in data` raises TypeError
\* on a scalar; both end in the except clause
PassesValidation(upload) ==
    /\ upload.kind \notin {"garbage", "scalar"}
    /\ \A field \in RequiredFields : field \in upload.fields

\* open(account_path, "x"): refuses to replace an existing credential
save_service_account_exclusive(dir, user_id, upload, fs) ==
    IF ~PassesValidation(upload) \/ fs = "open_fails" \/ Exists(dir, user_id)
    THEN [ret |-> FALSE, files |-> dir]
    ELSE IF fs = "write_fails"
    THEN [ret |-> FALSE, files |-> [dir EXCEPT ![user_id] = Truncated]]
    ELSE [ret |-> TRUE, files |-> [dir EXCEPT ![user_id] = Dump(Parse(upload))]]

\* lines 30-45
save_service_account(dir, user_id, upload, fs) ==
    IF ~PassesValidation(upload) \/ fs = "open_fails"
    THEN [ret |-> FALSE, files |-> dir]
    ELSE IF fs = "write_fails"
    THEN [ret |-> FALSE, files |-> [dir EXCEPT ![user_id] = Truncated]]
    ELSE [ret |-> TRUE, files |-> [dir EXCEPT ![user_id] = Dump(Parse(upload))]]

\* unlink() without the exists() test: FileNotFoundError ends in the except clause
remove_service_account_unchecked(dir, user_id, fs) ==
    IF Exists(dir, user_id) /\ fs # "unlink_fails"
    THEN [ret |-> TRUE, files |-> [dir EXCEPT ![user_id] = Absent]]
    ELSE [ret |-> FALSE, files |-> dir]

\* lines 48-56
remove_service_account(dir, user_id, fs) ==
    IF ~Exists(dir, user_id)
    THEN [ret |-> TRUE, files |-> dir]
    ELSE IF fs = "unlink_fails"
    THEN [ret |-> FALSE, files |-> dir]
    ELSE [ret |-> TRUE, files |-> [dir EXCEPT ![user_id] = Absent]]

\* from_service_account_file and TextToSpeechClient(credentials=...) succeed
Constructible(file) ==
    file.kind = "object" /\ RequiredFields \subseteq file.fields /\ file.usable

(* A client instance is a positive number, as an object is its address;   *)
(* 0 is None.  A new instance gets the least number that no instance still *)
(* referenced (`live`) has.  `attempted` says whether the constructors     *)
(* were called.                                                            *)
FreshId(live) ==
    CHOOSE id \in 1..(Cardinality(live) + 1) :
        id \notin live /\ \A lower \in 1..(id - 1) : lower \in live

\* without the early return: a client is built from whatever is there
get_text_to_speech_client_always(dir, user_id, live) ==
    [client |-> FreshId(live), attempted |-> TRUE]

\* lines 59-71
get_text_to_speech_client(dir, user_id, live) ==
    IF get_user_service_account_path(dir, user_id) = "None"
    THEN [client |-> 0, attempted |-> FALSE]
    ELSE IF Constructible(dir[user_id])
    THEN [client |-> FreshId(live), attempted |-> TRUE]
    ELSE [client |-> 0, attempted |-> TRUE]

SaveServiceAccount ==
    \E user_id \in UserIds, upload \in Uploads, fs \in SaveFs :
        LET res == save_service_account(files, user_id, upload, fs) IN
        /\ files' = res.files
        /\ last' = [op |-> "save_service_account", user_id |-> user_id,
                    upload |-> upload, fs |-> fs, ret |-> res.ret, before |-> files]
        /\ UNCHANGED <<now, session_state, lru, remote, rateObs, trail>>

RemoveServiceAccount ==
    \E user_id \in UserIds, fs \in RemoveFs :
        LET res == remove_service_account(files, user_id, fs) IN
        /\ files' = res.files
        /\ last' = [op |-> "remove_service_account", user_id |-> user_id,
                    fs |-> fs, ret |-> res.ret, before |-> files,
                    repeated |-> /\ last.op = "remove_service_account"
                                 /\ last.user_id = user_id]
        /\ UNCHANGED <<now, session_state, lru, remote, rateObs, trail>>

GetTextToSpeechClient ==
    \E user_id \in UserIds :
        LET res == get_text_to_speech_client(files, user_id, {}) IN
        /\ last' = [op |-> "get_text_to_speech_client", user_id |-> user_id,
                    ret |-> res.client, attempted |-> res.attempted, before |-> files]
        /\ UNCHANGED <<now, session_state, files, lru, remote, rateObs, trail>>

----------------------------------------------------------------------------
(* Synthesis: generate_speech, app.py:325-352.  A text is its length.      *)

TextLengths == {0, 1, MAX_TEXT_LENGTH - 1, MAX_TEXT_LENGTH,
                MAX_TEXT_LENGTH + 1, MAX_TEXT_LENGTH + 2}

(* What client.synthesize_speech does: it returns audio, or raises a       *)
(* GoogleAPIError, a ValueError, or some other exception.                  *)
SynthOutcomes == {"audio", "api_error", "value_error", "error"}

MaxSynthCalls == 12     \* remote synthesize_speech calls in a run of the model

\* the length test with >= for >: a text of exactly the maximum is refused
generate_speech_strict(text, outcome) ==
    IF text >= MAX_TEXT_LENGTH
    THEN [ret |-> "None", remote_calls |-> 0]
    ELSE [ret |-> IF outcome = "audio" THEN "audio" ELSE "None", remote_calls |-> 1]

\* without the final `except Exception`: an unexpected error reaches the caller
generate_speech_narrow(text, outcome) ==
    IF text > MAX_TEXT_LENGTH
    THEN [ret |-> "None", remote_calls |-> 0]
    ELSE [ret |-> CASE outcome = "audio" -> "audio"
                    [] outcome = "error" -> "raises"
                    [] OTHER -> "None",
          remote_calls |-> 1]

\* lines 325-352; ret is "audio" for response.audio_content, or "None"
generate_speech(text, outcome) ==
    IF text > MAX_TEXT_LENGTH
    THEN \* line 329 raises ValueError, caught at line 345
         [ret |-> "None", remote_calls |-> 0]
    ELSE \* line 339, and the three except clauses
         [ret |-> CASE outcome = "audio" -> "audio"
                    [] outcome = "api_error" -> "None"
                    [] outcome = "value_error" -> "None"
                    [] outcome = "error" -> "None",
          remote_calls |-> 1]

CountSynth(service, n) == [service EXCEPT !.synthesize_speech = @ + n]

GenerateSpeech ==
    \E text \in TextLengths, outcome \in SynthOutcomes :
        LET res == generate_speech(text, outcome) IN
        /\ remote.synthesize_speech < MaxSynthCalls
        /\ remote' = CountSynth(remote, res.remote_calls)
        /\ last' = [op |-> "generate_speech", text |-> text, outcome |-> outcome,
                    ret |-> res.ret, before |-> remote.synthesize_speech]
        /\ UNCHANGED <<now, session_state, files, lru, rateObs, trail>>

----------------------------------------------------------------------------
(* History log: st.session_state.history, app.py:390-391, 466-476, 532-534.*)
(* Python indexes from 0: index i of a list is element i + 1 of a sequence.*)

MaxHistory == 3     \* entries kept in a run of the model

At(list, idx) == list[idx + 1]

\* list.append for list.insert(0, ...): the log in oldest-first order
InsertLast(list, entry) == list \o <<entry>>

\* list.insert(0, entry)
Insert0(list, entry) == <<entry>> \o list

\* list.pop(idx), for 0 <= idx < len(list)
Pop(list, idx) == SubSeq(list, 1, idx) \o SubSeq(list, idx + 2, Len(list))

\* lines 390-391
EnsureHistory(state) ==
    IF ~Has(state, "history") THEN Put(state, "history", <<>>) ELSE state

\* lines 468-475; the other fields are copies of the widgets' values
HistoryEntry(text, t) == [text |-> text, timestamp |-> t, audio_content |-> "audio"]

\* line 476
append_history(state, entry) == Put(state, "history", Insert0(state.history, entry))

\* lines 532-533
delete_entry(state, idx) == Put(state, "history", Pop(state.history, idx))

AppendEntry ==
    \E text \in {1, 2, MAX_TEXT_LENGTH} :
        LET state == EnsureHistory(session_state)
            entry == HistoryEntry(text, now) IN
        /\ Len(state.history) < MaxHistory
        /\ session_state' = append_history(state, entry)
        /\ last' = [op |-> "append", entry |-> entry, before |-> state.history]
        /\ UNCHANGED <<now, files, lru, remote, rateObs, trail>>

DeleteEntry ==
    /\ Has(session_state, "history")
    /\ \E idx \in 0..(Len(session_state.history) - 1) :
        /\ session_state' = delete_entry(session_state, idx)
        /\ last' = [op |-> "pop", idx |-> idx, before |-> session_state.history]
    /\ UNCHANGED <<now, files, lru, remote, rateObs, trail>>

----------------------------------------------------------------------------
(* Voice catalogue: get_voices under @lru_cache(maxsize=128),              *)
(* app.py:285-304.  The cache key is the client object, hashed and         *)
(* compared by identity.                                                   *)

LRU_MAXSIZE == 128

(* What client.list_voices does: it returns voices that include the        *)
(* default language, voices that do not, or raises a GoogleAPIError or     *)
(* some other exception (google.auth's errors are of the latter sort).     *)
ListOutcomes == {"voices", "no_default", "api_error", "error"}

Cached(cache, client) == {i \in 1..Len(cache) : cache[i].client = client}

Without(cache, i) == SubSeq(cache, 1, i - 1) \o SubSeq(cache, i + 1, Len(cache))

\* lru_cache drops its least recently used entry when it is full
Store(cache, entry) ==
    IF Len(cache) >= LRU_MAXSIZE
    THEN Tail(cache) \o <<entry>>
    ELSE cache \o <<entry>>

ListCalls(service, client) ==
    IF client \in DOMAIN service.list_voices THEN service.list_voices[client] ELSE 0

CountList(service, client) ==
    [service EXCEPT !.list_voices = Put(@, client, ListCalls(service, client) + 1)]

\* lines 288-304, the body: ret is the list returned, or "raises"
fetch_voices(outcome) ==
    CASE outcome = "voices" -> "voices"
      [] outcome = "no_default" -> "no_default"
      [] outcome = "api_error" -> "empty"
      [] outcome = "error" -> "raises"

\* a cache that does not keep the empty list returned after a failure
get_voices_forgets_failures(cache, client, outcome) ==
    LET hit == Cached(cache, client) IN
    IF hit # {}
    THEN LET i == CHOOSE i \in hit : TRUE IN
         [ret |-> cache[i].voices, called |-> FALSE,
          lru |-> Without(cache, i) \o <<cache[i]>>]
    ELSE LET ret == fetch_voices(outcome) IN
         [ret |-> ret, called |-> TRUE,
          lru |-> IF ret \in {"raises", "empty"} THEN cache
                  ELSE Store(cache, [client |-> client, voices |-> ret])]

\* lines 285-304: the memoized function
get_voices(cache, client, outcome) ==
    LET hit == Cached(cache, client) IN
    IF hit # {}
    THEN \* a hit returns the stored list and makes the entry the most recent
         LET i == CHOOSE i \in hit : TRUE IN
         [ret |-> cache[i].voices, called |-> FALSE,
          lru |-> Without(cache, i) \o <<cache[i]>>]
    ELSE \* a miss runs the body; a result is stored, an exception is not
         LET ret == fetch_voices(outcome) IN
         [ret |-> ret, called |-> TRUE,
          lru |-> IF ret = "raises" THEN cache
                  ELSE Store(cache, [client |-> client, voices |-> ret])]

\* a new instance has made no call
NewInstance(service, client) ==
    [service EXCEPT !.list_voices = Put(@, client, 0)]

Keys(cache) == {cache[i].client : i \in 1..Len(cache)}

MaxListCalls == 2       \* remote list_voices calls per client in a run of the model
MaxOtherClients == 129  \* clients used once in a run of SpecCache

KeptClient == FreshId({})   \* the client the caller of SpecCache keeps

\* Observer of one get_voices call.
ObserveVoices(client, res) ==
    trail' = IF client = KeptClient
             THEN [trail EXCEPT !.ret = res.ret, !.since = 0]
             ELSE [trail EXCEPT !.since = IF @ < LRU_MAXSIZE THEN @ + 1 ELSE @,
                                !.others = @ + 1]

CallGetVoices(service, client, outcome) ==
    \E res \in {get_voices(lru, client, outcome)} :
    /\ ListCalls(service, client) < MaxListCalls
    /\ lru' = res.lru
    /\ remote' = IF res.called THEN CountList(service, client) ELSE service
    /\ last' = [op |-> "get_voices", client |-> client, outcome |-> outcome,
                ret |-> res.ret, called |-> res.called, prev |-> trail,
                before |-> ListCalls(service, client)]
    /\ ObserveVoices(client, res)

\* get_voices with the client the caller has kept since the start; to
\* get_voices, voices without the default language are voices
GetVoicesKeptClient ==
    /\ \E outcome \in ListOutcomes \ {"no_default"} :
         CallGetVoices(remote, KeptClient, outcome)
    /\ UNCHANGED <<now, session_state, files, rateObs>>

\* get_voices with a client constructed for this call and dropped after it,
\* the service answering
GetVoicesNewClient ==
    /\ trail.others < MaxOtherClients
    /\ \E client \in {FreshId(Keys(lru) \cup {KeptClient})} :
         CallGetVoices(NewInstance(remote, client), client, "voices")
    /\ UNCHANGED <<now, session_state, files, rateObs>>

----------------------------------------------------------------------------
(* The script: main(), app.py:379-538, run once per interaction of the     *)
(* session's user.  st.rerun() and `return` end the run; an exception      *)
(* ends it in the handler at lines 536-538.                                *)

SessionUser == "u1"     \* get_user_id(): the uuid4 kept in session_state

NoUpload == [kind |-> "none", fields |-> {}, usable |-> FALSE, fmt |-> "none"]

\* the files tried in the uploader: a working credential, a JSON array of
\* the required names, and a file that is not JSON
MainUploads == {u \in Uploads : u.usable /\ u.fmt = "pretty"}
                   \cup {u \in Uploads : u.kind = "array" /\ u.fields = RequiredFields}
                   \cup {u \in Uploads : u.kind = "garbage"}

\* st.text_area(max_chars=MAX_TEXT_LENGTH) lets no longer text through;
\* the empty text and the longest one are tried
MainTexts == {text \in TextLengths : text = 0 \/ text = MAX_TEXT_LENGTH}

MaxMainClients == 12    \* entries of the voice cache in a run of Spec
MaxMainHistory == 1     \* entries kept in a run of Spec
MaxMainTime == 61       \* the clock of Spec stops advancing here

(* The widgets' values in one run: the file in the uploader, the button    *)
(* clicked (at most one per run), the text, the history entry whose Delete *)
(* button was clicked; and what the filesystem and the service do.  Quiet  *)
(* is a run in which the user did nothing.                                 *)
Quiet == [uploaded |-> NoUpload, click |-> "none", text |-> 0, idx |-> 0,
          save_fs |-> "ok", remove_fs |-> "ok", synth |-> "audio"]

\* the state the functions called by main() read and write, and what the
\* run did: the functions called (trace), the client built, the result of
\* check_rate_limit (rate), how the click on Generate Speech ended (submit:
\* "empty", "rejected" or "accepted") and what generate_speech returned
World == [session_state |-> session_state, files |-> files, lru |-> lru,
          remote |-> remote, trace |-> {}, client |-> 0, rate |-> <<>>,
          submit |-> "none", speech |-> "none"]

Called(w, name) == [w EXCEPT !.trace = @ \cup {name}]

\* lines 386-391
main_setup(w) ==
    LET made == get_text_to_speech_client(w.files, SessionUser, Keys(w.lru)) IN
    [w EXCEPT !.client = made.client,
              !.remote = IF made.client # 0 THEN NewInstance(@, made.client) ELSE @,
              !.session_state = EnsureHistory(@),
              !.trace = IF made.attempted THEN {"construct"} ELSE {}]

\* lines 396-412 and 422-426, client is None: the upload, then rerun or return
main_upload(w, in) ==
    IF in.uploaded.kind = "none"
    THEN w
    ELSE LET saved == save_service_account(w.files, SessionUser, in.uploaded, in.save_fs)
         IN  [Called(w, "save_service_account") EXCEPT !.files = saved.files]

\* lines 503-534: the history section; the click deletes one entry
main_history(w, in) ==
    IF in.click = "delete" /\ in.idx < Len(w.session_state.history)
    THEN [Called(w, "pop") EXCEPT !.session_state = delete_entry(@, in.idx)]
    ELSE w

\* without the return of line 461: the rejection is shown and synthesis goes on
main_generate_ungated(w, in, t) ==
    IF in.click # "generate"
    THEN main_history(w, in)
    ELSE IF in.text = 0
    THEN [w EXCEPT !.submit = "empty"]
    ELSE LET gate == check_rate_limit(w.session_state, t)
             w1 == [Called(w, "check_rate_limit") EXCEPT
                      !.session_state = gate.state, !.rate = <<gate>>,
                      !.submit = IF gate.ret THEN "accepted" ELSE "rejected"]
             speech == generate_speech(in.text, in.synth)
             w2 == [Called(w1, "generate_speech") EXCEPT
                      !.remote = CountSynth(@, speech.remote_calls),
                      !.speech = speech.ret]
         IN  IF speech.ret = "audio"
             THEN main_history(
                    [Called(w2, "append") EXCEPT
                       !.session_state =
                          append_history(@, HistoryEntry(in.text, t))],
                    in)
             ELSE main_history(w2, in)

\* with a refund: a submission whose synthesis failed gives its slot back
main_generate_refunds(w, in, t) ==
    IF in.click # "generate"
    THEN main_history(w, in)
    ELSE IF in.text = 0
    THEN [w EXCEPT !.submit = "empty"]
    ELSE LET gate == check_rate_limit(w.session_state, t)
             w1 == [Called(w, "check_rate_limit") EXCEPT
                      !.session_state = gate.state, !.rate = <<gate>>,
                      !.submit = IF gate.ret THEN "accepted" ELSE "rejected"]
         IN  IF ~gate.ret
             THEN w1
             ELSE LET speech == generate_speech(in.text, in.synth)
                      w2 == [Called(w1, "generate_speech") EXCEPT
                               !.remote = CountSynth(@, speech.remote_calls),
                               !.speech = speech.ret]
                  IN  IF speech.ret = "audio"
                      THEN main_history(
                             [Called(w2, "append") EXCEPT
                                !.session_state =
                                   append_history(@, HistoryEntry(in.text, t))],
                             in)
                      ELSE main_history(
                             [w2 EXCEPT !.session_state =
                                Put(@, "rate_limit",
                                    [@.rate_limit EXCEPT !.count = @ - 1])],
                             in)

\* lines 454-476: the Generate Speech button
main_generate(w, in, t) ==
    IF in.click # "generate"
    THEN main_history(w, in)
    ELSE IF in.text = 0
    THEN [w EXCEPT !.submit = "empty"]                  \* lines 455-457
    ELSE LET gate == check_rate_limit(w.session_state, t)
             w1 == [Called(w, "check_rate_limit") EXCEPT
                      !.session_state = gate.state, !.rate = <<gate>>,
                      !.submit = IF gate.ret THEN "accepted" ELSE "rejected"]
         IN  IF ~gate.ret
             THEN w1                                    \* lines 459-461
             ELSE LET speech == generate_speech(in.text, in.synth)
                      w2 == [Called(w1, "generate_speech") EXCEPT
                               !.remote = CountSynth(@, speech.remote_calls),
                               !.speech = speech.ret]
                  IN  IF speech.ret = "audio"
                      THEN main_history(
                             [Called(w2, "append") EXCEPT
                                !.session_state =
                                   append_history(@, HistoryEntry(in.text, t))],
                             in)
                      ELSE IF speech.ret = "None"
                      THEN main_history(w2, in)
                      ELSE w2

\* lines 428-450: the voices and the two select boxes.  The index() of line
\* 442 raises ValueError unless the default language is among the voices.
main_voices(w, in, t) ==
    LET listed == get_voices(w.lru, w.client, w.remote.answer)
        w1 == [Called(w, "get_voices") EXCEPT
                 !.lru = listed.lru,
                 !.remote = IF listed.called THEN CountList(@, w.client) ELSE @,
                 !.trace = IF listed.called THEN @ \cup {"list_voices"} ELSE @]
    IN  IF listed.ret = "voices" THEN main_generate(w1, in, t) ELSE w1

\* lines 413-420, client is not None: the Remove Service Account button
main_remove(w, in, t) ==
    IF in.click # "remove"
    THEN main_voices(w, in, t)
    ELSE LET removed == remove_service_account(w.files, SessionUser, in.remove_fs)
             w1 == [Called(w, "remove_service_account") EXCEPT !.files = removed.files]
         IN  IF removed.ret THEN w1 ELSE main_voices(w1, in, t)

\* lines 379-538
main(w, in, t) ==
    LET w1 == main_setup(w) IN
    IF w1.client = 0 THEN main_upload(w1, in) ELSE main_remove(w1, in, t)

\* Observer of one run: what it added to the remote synthesize_speech calls
\* and to the history, counted from the run that set window_start.
ObserveWindow(before, w) ==
    in_window' =
         LET fresh == /\ Has(w.session_state, "rate_limit")
                      /\ \/ ~Has(before, "rate_limit")
                         \/ before.rate_limit.window_start
                              # w.session_state.rate_limit.window_start
             base == IF fresh THEN [synth |-> 0, appended |-> 0] ELSE in_window
         IN  [synth |-> base.synth + w.remote.synthesize_speech
                                   - remote.synthesize_speech,
              appended |-> base.appended + IF "append" \in w.trace THEN 1 ELSE 0]

Run(in) ==
    \E w \in {main(World, in, now)} :
    /\ Len(w.lru) <= MaxMainClients
    /\ w.remote.synthesize_speech <= MaxSynthCalls
    /\ Len(w.session_state.history) <= MaxMainHistory
    /\ session_state' = w.session_state
    /\ files' = w.files
    /\ lru' = w.lru
    /\ remote' = w.remote
    /\ last' = [op |-> "main", had_file |-> Exists(files, SessionUser),
                client |-> w.client, trace |-> w.trace,
                submit |-> w.submit, speech |-> w.speech]
    /\ IF w.rate # <<>>
       THEN ObserveAccepted(session_state, w.rate[1])
       ELSE UNCHANGED accepted
    /\ ObserveWindow(session_state, w)
    /\ UNCHANGED <<calls, first_call>>
    /\ UNCHANGED <<now, trail>>

\* a run in which no button is clicked: the page is loaded or redrawn
RunIdle == Run(Quiet)

\* a run with a file in the uploader
RunUpload ==
    \E uploaded \in MainUploads, fs \in SaveFs :
        Run([Quiet EXCEPT !.uploaded = uploaded, !.save_fs = fs])

RunRemove ==
    \E fs \in RemoveFs : Run([Quiet EXCEPT !.click = "remove", !.remove_fs = fs])

RunGenerate ==
    \E text \in MainTexts, synth \in SynthOutcomes :
        Run([Quiet EXCEPT !.click = "generate", !.text = text, !.synth = synth])

RunDelete ==
    \E idx \in 0..(MaxMainHistory - 1) :
        Run([Quiet EXCEPT !.click = "delete", !.idx = idx])

\* the user comes back after the rate window has passed
Wait ==
    /\ now + RATE_LIMIT_WINDOW + 1 <= MaxMainTime
    /\ now' = now + RATE_LIMIT_WINDOW + 1
    /\ UNCHANGED <<session_state, files, lru, remote, last, rateObs, trail>>

----------------------------------------------------------------------------
NoOp == [op |-> "none"]

\* the remote service before any call, answering list_voices with `answer`
Service(answer) == [list_voices |-> NoKeys, synthesize_speech |-> 0, answer |-> answer]

\* a new process and a new session, with a credential directory and a service
InitWith(dir, service) ==
    /\ now = 0
    /\ session_state = NoKeys
    /\ files = dir
    /\ lru = <<>>
    /\ remote = service
    /\ last = NoOp
    /\ calls = 0
    /\ first_call = 0
    /\ accepted = 0
    /\ trail = [ret |-> "never", since |-> 0, others |-> 0]
    /\ in_window = [synth |-> 0, appended |-> 0]

EmptyDir == [u \in UserIds |-> Absent]

InitCommon == InitWith(EmptyDir, Service("voices"))

(* The application: the session's user interacts with the page.  What the  *)
(* service answers to list_voices is fixed for the run of the model.       *)
Init == \E answer \in ListOutcomes : InitWith(EmptyDir, Service(answer))

Next == RunIdle \/ RunUpload \/ RunRemove \/ RunGenerate \/ RunDelete
            \/ Wait

Spec == Init /\ [][Next]_vars

(* The rate limiter called at arbitrary moments.                           *)
NextRate == CheckRateLimit \/ Tick

SpecRate == InitCommon /\ [][NextRate]_vars

(* The credential store and the client factory called in any order.        *)
NextStore == SaveServiceAccount \/ RemoveServiceAccount \/ GetTextToSpeechClient

SpecStore == InitCommon /\ [][NextStore]_vars

(* generate_speech called with any text and any answer of the service.     *)
NextSynth == GenerateSpeech

SpecSynth == InitCommon /\ [][NextSynth]_vars

(* The history log appended to and deleted from in any order.              *)
NextHistory == AppendEntry \/ DeleteEntry

SpecHistory == InitCommon /\ [][NextHistory]_vars

(* get_voices called again and again with one client that the caller       *)
(* keeps, and in between with clients that are used once.  The kept client *)
(* is the first one, built from a stored credential.                       *)
StoredCredential ==
    [kind |-> "object", fields |-> RequiredFields, usable |-> TRUE, fmt |-> "dumped"]

InitCache ==
    InitWith([EmptyDir EXCEPT !["u1"] = StoredCredential],
             NewInstance(Service("voices"), KeptClient))

NextCache == GetVoicesKeptClient \/ GetVoicesNewClient

SpecCache == InitCache /\ [][NextCache]_vars

----------------------------------------------------------------------------
(* Claims about the rate limiter (SpecRate).                               *)

Window == session_state.rate_limit

(* C1: with 10 requests per 60 s, the first 10 calls made within 60 s of   *)
(* the session's first call return True and the 11th returns False; a call *)
(* that finds the window elapsed returns True and leaves count = 1 and     *)
(* window_start = the time of that call.                                   *)
C1_FirstWindow ==
    (/\ last.op = "check_rate_limit"
     /\ calls <= RATE_LIMIT_REQUESTS + 1
     /\ last.at - first_call <= RATE_LIMIT_WINDOW)
    => (last.ret <=> calls <= RATE_LIMIT_REQUESTS)

C1_AfterWindow ==
    (/\ CheckRateLimit
     /\ Has(session_state, "rate_limit")
     /\ now - Window.window_start > RATE_LIMIT_WINDOW)
    => (/\ last'.ret
        /\ session_state'.rate_limit = [count |-> 1, window_start |-> now])

C1_TenThenRejectThenReset == [](C1_FirstWindow) /\ [][C1_AfterWindow]_vars

\* the 12th call follows 11 calls and is the first of a new window
C1_Witness ==
    /\ last.op = "check_rate_limit"
    /\ calls = RATE_LIMIT_REQUESTS + 2
    /\ last.at - first_call > RATE_LIMIT_WINDOW
    /\ last.ret
    /\ Window = [count |-> 1, window_start |-> last.at]

(* C2: the count stays within 0..RATE_LIMIT_REQUESTS, and no more than     *)
(* RATE_LIMIT_REQUESTS calls have returned True since window_start was set.*)
C2_CountWithinCeiling ==
    /\ accepted <= RATE_LIMIT_REQUESTS
    /\ Has(session_state, "rate_limit")
         => /\ Window.count \in 0..RATE_LIMIT_REQUESTS
            /\ Window.count = accepted

\* a call rejected at the ceiling
C2_Witness ==
    /\ last.op = "check_rate_limit"
    /\ ~last.ret
    /\ Window.count = RATE_LIMIT_REQUESTS
    /\ accepted = RATE_LIMIT_REQUESTS

----------------------------------------------------------------------------
(* Claims about the credential store (SpecStore).                          *)

\* the upload is a JSON object that has the field
HasField(upload, field) == upload.kind = "object" /\ field \in upload.fields

HasAllRequired(upload) == \A field \in RequiredFields : HasField(upload, field)

OthersUntouched(user_id) ==
    \A other \in UserIds \ {user_id} : files[other] = last.before[other]

(* C3: an upload that does not parse or lacks a required field makes       *)
(* save_service_account return False and leaves the directory as it was.   *)
C3_InvalidUploadLeavesStore ==
    (/\ last.op = "save_service_account"
     /\ ~HasAllRequired(last.upload))
    => (~last.ret /\ files = last.before)

(* C4: an upload with all required fields makes save_service_account       *)
(* return True and leaves exactly that data stored for the identity,       *)
(* whether or not a credential was stored before.                          *)
C4_ValidUploadStored ==
    (/\ last.op = "save_service_account"
     /\ HasAllRequired(last.upload))
    => (/\ last.ret
        /\ Exists(files, last.user_id)
        /\ Parse(files[last.user_id]) = Parse(last.upload))

(* C4 as amended: the same, when neither open() nor the write fails; the   *)
(* other identities' credentials are not touched.                          *)
C4_ValidUploadStoredAbsentFsError ==
    (/\ last.op = "save_service_account"
     /\ HasAllRequired(last.upload)
     /\ last.fs = "ok")
    => (/\ last.ret
        /\ Exists(files, last.user_id)
        /\ get_user_service_account_path(files, last.user_id) = last.user_id
        /\ Parse(files[last.user_id]) = Parse(last.upload)
        /\ OthersUntouched(last.user_id))

\* a re-upload that replaced a different credential, written in another layout
C4_Witness ==
    /\ last.op = "save_service_account"
    /\ HasAllRequired(last.upload)
    /\ last.fs = "ok"
    /\ last.ret
    /\ Exists(last.before, last.user_id)
    /\ Parse(last.before[last.user_id]) # Parse(last.upload)
    /\ files[last.user_id] # last.upload

(* C5: absent a filesystem error remove_service_account returns True       *)
(* whether or not a file exists, no credential exists afterwards, and a    *)
(* call that finds no file changes nothing.                                *)
C5_RemoveIdempotent ==
    (/\ last.op = "remove_service_account"
     /\ last.fs = "ok")
    => (/\ last.ret
        /\ ~Exists(files, last.user_id)
        /\ OthersUntouched(last.user_id)
        /\ ~Exists(last.before, last.user_id) => files = last.before)

\* the second of two removals in a row, the first of which deleted a file
C5_Witness ==
    /\ last.op = "remove_service_account"
    /\ last.repeated
    /\ last.fs = "ok"
    /\ last.ret
    /\ ~Exists(last.before, last.user_id)
    /\ \E other \in UserIds : Exists(files, other)

----------------------------------------------------------------------------
(* Claims about the client factory in the script (Spec).                   *)

RateOf(state) == IF Has(state, "rate_limit") THEN <<state.rate_limit>> ELSE <<>>

(* C6: when no credential is stored for the identity,                      *)
(* get_text_to_speech_client returns None without calling the              *)
(* constructors, and the run of main() ends without listing voices,        *)
(* consuming the rate limit or synthesizing: it can only try to save an    *)
(* upload.                                                                 *)
C6_RunWithoutCredential ==
    /\ (last.op = "main" /\ ~last.had_file)
         => (last.client = 0 /\ last.trace \subseteq {"save_service_account"})
    \* a file that is there but yields no client ends the run in the same way
    /\ (last.op = "main" /\ last.client = 0)
         => last.trace \subseteq {"construct", "save_service_account"}

C6_NothingConsumed ==
    ~Exists(files, SessionUser)
    => /\ lru' = lru
       /\ remote'.list_voices = remote.list_voices
       /\ remote'.synthesize_speech = remote.synthesize_speech
       /\ RateOf(session_state') = RateOf(session_state)
       /\ accepted' = accepted

C6_NoCredentialNoClient == [](C6_RunWithoutCredential) /\ [][C6_NothingConsumed]_vars

\* a run after the credential was used and removed, in which a save failed
C6_Witness ==
    /\ last.op = "main"
    /\ ~last.had_file
    /\ last.client = 0
    /\ last.trace = {"save_service_account"}
    /\ ~Exists(files, SessionUser)
    /\ lru # <<>>
    /\ remote.synthesize_speech > 0

----------------------------------------------------------------------------
(* Claims about generate_speech (SpecSynth).                               *)

RemoteSynthCalls == remote.synthesize_speech - last.before

(* C7: a text longer than MAX_TEXT_LENGTH makes generate_speech return     *)
(* None without a remote synthesize_speech call; a text of at most         *)
(* MAX_TEXT_LENGTH characters makes it call the remote service once.       *)
C7_LengthGate ==
    last.op = "generate_speech"
    => /\ last.text > MAX_TEXT_LENGTH => (last.ret = "None" /\ RemoteSynthCalls = 0)
       /\ last.text <= MAX_TEXT_LENGTH => RemoteSynthCalls = 1

\* a text of MAX_TEXT_LENGTH + 1 refused after a text of MAX_TEXT_LENGTH was sent
C7_Witness ==
    /\ last.op = "generate_speech"
    /\ last.text = MAX_TEXT_LENGTH + 1
    /\ last.ret = "None"
    /\ remote.synthesize_speech = 1
    /\ last.before = 1

(* C8: generate_speech raises nothing; it returns None after a refused     *)
(* text, a GoogleAPIError or any other error of the remote call, and the   *)
(* audio exactly when the remote call was made and succeeded.              *)
C8_FailuresBecomeNone ==
    last.op = "generate_speech"
    => /\ last.ret \in {"None", "audio"}
       /\ last.ret = "audio" <=> (RemoteSynthCalls = 1 /\ last.outcome = "audio")

\* an unexpected error of the remote call answered with None
C8_Witness ==
    /\ last.op = "generate_speech"
    /\ last.outcome = "error"
    /\ RemoteSynthCalls = 1
    /\ last.ret = "None"

----------------------------------------------------------------------------
(* Claims about the history log (SpecHistory).                             *)

(* C9: an append puts the entry at index 0 and moves every older entry up  *)
(* by one, keeping their order; deleting index i removes exactly that      *)
(* entry: the length drops by 1, the entries before i stay and those after *)
(* i move down by one, so deleting index 0 brings index 1 to index 0.      *)
C9_MostRecentFirst ==
    LET log == session_state.history
        old == last.before IN
    /\ last.op = "append"
         => /\ Len(log) = Len(old) + 1
            /\ At(log, 0) = last.entry
            /\ \A i \in 0..(Len(old) - 1) : At(log, i + 1) = At(old, i)
    /\ last.op = "pop"
         => /\ Len(log) = Len(old) - 1
            /\ \A i \in 0..(Len(log) - 1) :
                 At(log, i) = IF i < last.idx THEN At(old, i) ELSE At(old, i + 1)

\* index 0 deleted from a log of three different entries
C9_Witness ==
    /\ last.op = "pop"
    /\ last.idx = 0
    /\ Len(last.before) = 3
    /\ At(last.before, 0) # At(last.before, 1)
    /\ At(last.before, 1) # At(last.before, 2)
    /\ At(session_state.history, 0) = At(last.before, 1)

----------------------------------------------------------------------------
(* Claims about get_voices (SpecCache).                                    *)

(* C10: list_voices is called exactly once for every client passed to      *)
(* get_voices: once by the first call, and never again.                    *)
C10_OnceForEveryClient ==
    /\ last.op = "get_voices" => ListCalls(remote, last.client) = 1
    /\ \A client \in DOMAIN remote.list_voices : ListCalls(remote, client) <= 1

(* C10 as amended: a call of get_voices with a client makes no remote call *)
(* and returns what the previous call with that client returned (the empty *)
(* list after a GoogleAPIError included) when that call returned and fewer *)
(* than 128 other clients' results were stored since; otherwise (first     *)
(* call, the previous call raised an error other than GoogleAPIError, or   *)
(* the entry was evicted by 128 later ones) it calls list_voices once more.*)
Memoized(prev) ==
    /\ prev.ret \in {"voices", "no_default", "empty"}
    /\ prev.since < LRU_MAXSIZE

C10_OnceWhileMemoized ==
    (last.op = "get_voices" /\ last.client = KeptClient)
    => /\ ListCalls(remote, KeptClient) = last.before + (IF last.called THEN 1 ELSE 0)
       /\ Memoized(last.prev) => (~last.called /\ last.ret = last.prev.ret)
       /\ ~Memoized(last.prev) => (last.called /\ last.ret = fetch_voices(last.outcome))

\* the empty list of a failed first call, returned again without a remote
\* call after as many other clients as the cache can hold beside it
C10_Witness ==
    /\ last.op = "get_voices"
    /\ last.client = KeptClient
    /\ last.prev.ret = "empty"
    /\ last.prev.since = LRU_MAXSIZE - 1
    /\ ~last.called
    /\ last.ret = "empty"
    /\ ListCalls(remote, KeptClient) = 1

----------------------------------------------------------------------------
(* Claims about the voice cache in the script (Spec).                      *)

\* the last run of main() called list_voices and got a list of voices
C11_Fetched ==
    /\ last.op = "main"
    /\ "list_voices" \in last.trace
    /\ remote.answer \in {"voices", "no_default"}

\* the step is a run of main() that reaches get_voices; it reads the
\* credential the last run read, which that run has left in place
C11_Rerun ==
    /\ now' = now
    /\ last'.op = "main"
    /\ "get_voices" \in last'.trace

(* C11: once a run of main() has fetched the voice list for the stored     *)
(* credential, the get_voices call of the next run with that credential    *)
(* is answered from the cache: list_voices is not called again.            *)
C11_MemoSharedAcrossRuns ==
    [][(C11_Fetched /\ C11_Rerun) => "list_voices" \notin last'.trace]_vars

----------------------------------------------------------------------------
(* Frame of a rejected check_rate_limit call (SpecRate).                   *)

\* a call is rejected only in a window that is full and has not elapsed
C12_RejectedInsideFullWindow ==
    (last.op = "check_rate_limit" /\ ~last.ret)
    => /\ Window.count = RATE_LIMIT_REQUESTS
       /\ last.at - Window.window_start \in 0..RATE_LIMIT_WINDOW

\* the call leaves the count, window_start and the rest of the session alone
C12_RejectedCallChangesNothing ==
    (CheckRateLimit /\ ~last'.ret)
    => /\ Has(session_state, "rate_limit")
       /\ session_state'.rate_limit.count = Window.count
       /\ session_state'.rate_limit.window_start = Window.window_start
       /\ session_state' = session_state

(* C12: a check_rate_limit call that returns False does not increment the  *)
(* count and does not move window_start; it happens only in a window that  *)
(* is full and has not elapsed, so rejected calls repeated in such a       *)
(* window leave the rate window as it was and the moment of its reset,     *)
(* window_start + RATE_LIMIT_WINDOW, where it was.                         *)
C12_RejectedCallIsFramePreserving ==
    [](C12_RejectedInsideFullWindow) /\ [][C12_RejectedCallChangesNothing]_vars

\* the second call rejected in the first window, at the last second of it
C12_Witness ==
    /\ last.op = "check_rate_limit"
    /\ ~last.ret
    /\ calls = RATE_LIMIT_REQUESTS + 2
    /\ Window = [count |-> RATE_LIMIT_REQUESTS, window_start |-> first_call]
    /\ last.at = first_call + RATE_LIMIT_WINDOW

----------------------------------------------------------------------------
(* Claims about a click on Generate Speech in the script (Spec).           *)

Log(state) == IF Has(state, "history") THEN state.history ELSE <<>>

\* what the last run of main() did, in the order gate, synthesis, append
C13_GateThenSynthesisThenAppend ==
    last.op = "main"
    => /\ "generate_speech" \in last.trace
            => ("check_rate_limit" \in last.trace /\ last.submit = "accepted")
       /\ last.submit = "rejected"
            => (/\ "check_rate_limit" \in last.trace
                /\ last.trace \cap {"generate_speech", "append"} = {}
                /\ last.speech = "none")
       /\ "append" \in last.trace
            => ("generate_speech" \in last.trace /\ last.speech = "audio")

\* what a step does to the service and to the history
C13_CallsAndAppendsAreGated ==
    /\ remote'.synthesize_speech # remote.synthesize_speech
         => /\ remote'.synthesize_speech = remote.synthesize_speech + 1
            /\ last'.op = "main" /\ last'.submit = "accepted"
    /\ Len(Log(session_state')) > Len(Log(session_state))
         => /\ Log(session_state') = Insert0(Log(session_state), At(Log(session_state'), 0))
            /\ last'.op = "main" /\ last'.submit = "accepted"
            /\ last'.speech = "audio"
            /\ remote'.synthesize_speech = remote.synthesize_speech + 1
    /\ (last'.op = "main" /\ last'.submit = "rejected")
         => /\ remote'.synthesize_speech = remote.synthesize_speech
            /\ Len(Log(session_state')) <= Len(Log(session_state))

\* the counts of one rate window
C13_AtMostCeilingPerWindow ==
    /\ in_window.appended <= in_window.synth
    /\ in_window.synth <= accepted
    /\ accepted <= RATE_LIMIT_REQUESTS

(* C13: in a run of main() a remote synthesize_speech call is made only    *)
(* after check_rate_limit returned True in that run, a rejected run makes  *)
(* no remote call and appends nothing, and an entry is appended only when  *)
(* generate_speech returned audio; so, counted from the moment             *)
(* window_start is set, the session makes at most RATE_LIMIT_REQUESTS      *)
(* remote synthesize_speech calls and at most RATE_LIMIT_REQUESTS appends. *)
C13_GateSynthesisAppendOrder ==
    /\ [](C13_GateThenSynthesisThenAppend /\ C13_AtMostCeilingPerWindow)
    /\ [][C13_CallsAndAppendsAreGated]_vars

\* a run rejected in a window in which the ceiling of remote calls was
\* reached and entries were appended
C13_Witness ==
    /\ last.op = "main"
    /\ last.submit = "rejected"
    /\ in_window.synth = RATE_LIMIT_REQUESTS
    /\ in_window.appended > 1
    /\ remote.synthesize_speech = RATE_LIMIT_REQUESTS

----------------------------------------------------------------------------
(* Claims about the slots of the rate window in the script (Spec).         *)

\* the step is a run of main(), not the passing of time
C14_IsRun == now' = now /\ last'.op = "main"

\* the count is the number of accepted submissions of the window, whether
\* or not they led to a remote call or to an entry
C14_CountIsAccepted ==
    Has(session_state, "rate_limit")
    => /\ Window.count = accepted
       /\ Window.count >= in_window.appended

\* an accepted submission ends with its slot taken, whatever
\* generate_speech returned
C14_AcceptedTakesSlot ==
    (C14_IsRun /\ last'.submit = "accepted")
    => /\ last'.speech \in {"audio", "None"}
       /\ session_state'.rate_limit.count =
            IF /\ Has(session_state, "rate_limit")
               /\ session_state'.rate_limit.window_start = Window.window_start
            THEN Window.count + 1
            ELSE 1

\* no step gives a slot back: the count only drops when a new window starts
C14_NoRefund ==
    Has(session_state, "rate_limit")
    => /\ Has(session_state', "rate_limit")
       /\ session_state'.rate_limit.window_start = Window.window_start
            => session_state'.rate_limit.count >= Window.count

\* a submission in a window whose slots are all taken is rejected,
\* whatever became of the submissions that took them
C14_FullWindowRejects ==
    (/\ C14_IsRun /\ last'.submit \in {"accepted", "rejected"}
     /\ Has(session_state, "rate_limit")
     /\ accepted = RATE_LIMIT_REQUESTS
     /\ now - Window.window_start <= RATE_LIMIT_WINDOW)
    => last'.submit = "rejected"

\* a submission with empty text does not reach the rate limiter
C14_EmptyTextIsFree ==
    (C14_IsRun /\ last'.submit = "empty")
    => /\ RateOf(session_state') = RateOf(session_state)
       /\ accepted' = accepted
       /\ "check_rate_limit" \notin last'.trace
       /\ remote'.synthesize_speech = remote.synthesize_speech

(* C14: every submission of a non-empty text that check_rate_limit accepts *)
(* takes a slot of the window and keeps it when generate_speech returns    *)
(* None: the count is not decremented, so after RATE_LIMIT_REQUESTS        *)
(* submissions, failed ones included, the next one in the window is        *)
(* rejected; a submission with empty text leaves the rate window alone.    *)
C14_FailedSubmissionsTakeSlots ==
    /\ [](C14_CountIsAccepted)
    /\ [][/\ C14_AcceptedTakesSlot
          /\ C14_NoRefund
          /\ C14_FullWindowRejects
          /\ C14_EmptyTextIsFree]_vars

\* a submission rejected after RATE_LIMIT_REQUESTS submissions of the window
\* were accepted and none of them produced an entry
C14_Witness ==
    /\ last.op = "main"
    /\ last.submit = "rejected"
    /\ Window.count = RATE_LIMIT_REQUESTS
    /\ in_window = [synth |-> RATE_LIMIT_REQUESTS, appended |-> 0]
    /\ Log(session_state) = <<>>

====
